---------------------------- MODULE Spec2Model ----------------------------
(***************************************************************************)
(* ReverseSemaphoreExclusiveEmpty (src/src/semaphore.py): a counter that   *)
(* regular tasks raise while they run (aquire / release) and that "empty"  *)
(* tasks wait to see at zero (aquireEmpty / releaseEmpty), built on one    *)
(* asyncio.Condition.                                                      *)
(*                                                                         *)
(* The tasks are asyncio tasks on one event loop: a task runs without      *)
(* interruption from one suspension to the next, and the only suspension   *)
(* inside the four operations is the future awaited by Condition.wait      *)
(* (the condition's lock is never held across a suspension, so taking it   *)
(* never suspends).  Each action below is one such uninterrupted run.  The *)
(* statements of a run are applied in the order of the source to a record  *)
(* of the shared state, so that the lock is visibly taken and dropped      *)
(* around them.                                                            *)
(***************************************************************************)
EXTENDS Integers, Sequences, FiniteSets, TLC

\* Number of tasks that use the semaphore.
NumTasks == 4

Tasks == 1..NumTasks

VARIABLES
    count,              \* self._count
    emptyWaitersCount,  \* self._emptyWaitersCount
    locked,             \* self._cond's lock is held
    waiters,            \* self._cond._waiters: the parked futures, by task
    fut,                \* state of the future each task awaits in wait()
    ready,              \* the event loop's queue of tasks whose future is done
    pc,                 \* where each task is
    kind,               \* what each task was started to do
    aquired,            \* per task: completed calls of aquire / aquireEmpty
    released,           \* per task: calls of release / releaseEmpty
    writes              \* the assignments made to the counters so far: which
                        \* counter, and whether the lock was held

vars == <<count, emptyWaitersCount, locked, waiters, fut, ready, pc, kind,
          aquired, released, writes>>

\* The shared state the operations work on, as one record.
Sem ==
    [count |-> count, emptyWaitersCount |-> emptyWaitersCount,
     locked |-> locked, waiters |-> waiters, fut |-> fut, ready |-> ready,
     writes |-> writes]

\* __init__
Init ==
    /\ count = 0
    /\ emptyWaitersCount = 0
    /\ locked = FALSE
    /\ waiters = << >>
    /\ fut = [t \in Tasks |-> "none"]
    /\ ready = << >>
    /\ pc = [t \in Tasks |-> "idle"]
    /\ kind = [t \in Tasks |-> "none"]
    /\ aquired = [t \in Tasks |-> 0]
    /\ released = [t \in Tasks |-> 0]
    /\ writes = {}

-----------------------------------------------------------------------------
(* asyncio.Condition, as the semaphore uses it *)

\* `async with self._cond:` entry; the lock is free whenever a task runs.
CondAcquire(s) == [s EXCEPT !.locked = TRUE]

\* `async with self._cond:` exit.
CondRelease(s) == [s EXCEPT !.locked = FALSE]

\* Positions of the parked futures that are not done yet.
PendingAt(s) == {i \in 1..Len(s.waiters) : s.fut[s.waiters[i]] = "pending"}

\* Mutant of Notify: every parked future gets its result (notify_all).
NotifyAll(s) ==
    LET woken == SelectSeq(s.waiters, LAMBDA w : s.fut[w] = "pending")
    IN  [s EXCEPT !.fut = [w \in DOMAIN @ |->
                              IF @[w] = "pending" THEN "result" ELSE @[w]],
                  !.ready = @ \o woken]

\* self._cond.notify(): the first future that is not done gets its result,
\* and its task is scheduled.
Notify(s) ==
    IF PendingAt(s) = {} THEN s
    ELSE LET i == CHOOSE i \in PendingAt(s) : \A j \in PendingAt(s) : i <= j
             w == s.waiters[i]
         IN  [s EXCEPT !.fut[w] = "result", !.ready = Append(@, w)]

\* Mutant of WaitPark: the new future goes to the head of the queue.
WaitParkAtHead(s, t) ==
    [s EXCEPT !.locked = FALSE, !.waiters = <<t>> \o @, !.fut[t] = "pending"]

\* wait(), up to its suspension: drop the lock, park a new future.
WaitPark(s, t) ==
    [s EXCEPT !.locked = FALSE, !.waiters = Append(@, t), !.fut[t] = "pending"]

\* wait(), from its resumption: unpark the future, take the lock again.
WaitResume(s, t) ==
    [s EXCEPT !.waiters = SelectSeq(@, LAMBDA x : x # t),
              !.fut[t] = "none",
              !.ready = Tail(@),
              !.locked = TRUE]

-----------------------------------------------------------------------------
(* The four operations.  Each yields the state it leaves and whether the   *)
(* caller is parked in wait() (parked) or has returned.                    *)

\* self._count = v
SetCount(s, v) ==
    [s EXCEPT !.count = v,
              !.writes = @ \cup {[counter |-> "count", locked |-> s.locked]}]

\* self._emptyWaitersCount = v
SetEmptyWaitersCount(s, v) ==
    [s EXCEPT !.emptyWaitersCount = v,
              !.writes = @ \cup {[counter |-> "emptyWaitersCount",
                                  locked |-> s.locked]}]

\* Mutant of AquirePredicate: one registered empty waiter is let through.
AquirePredicateLax(s) == s.emptyWaitersCount <= 1

\* lambda: self._emptyWaitersCount == 0
AquirePredicate(s) == s.emptyWaitersCount = 0

\* Mutant of AquireEmptyPredicate: one regular holder is let through.
AquireEmptyPredicateLax(s) == s.count <= 1

\* lambda: self._count == 0
AquireEmptyPredicate(s) == s.count = 0

\* Mutant of AquireCheck: wait() first, the predicate only after a notify.
AquireCheckWaitFirst(s, t) == [s |-> WaitPark(s, t), parked |-> TRUE]

\* aquire, from the predicate check (first check, or re-check after a wake),
\* with the lock held.
AquireCheck(s, t) ==
    IF AquirePredicate(s)
    THEN [s |-> CondRelease(SetCount(s, s.count + 1)), parked |-> FALSE]
    ELSE [s |-> WaitPark(s, t), parked |-> TRUE]

\* Mutant of Aquire: at most two regular holders at a time.
AquireCapped(s, t) ==
    IF s.count < 2 THEN AquireCheck(CondAcquire(s), t)
    ELSE [s |-> WaitPark(CondAcquire(s), t), parked |-> TRUE]

\* aquire, from the call.
Aquire(s, t) == AquireCheck(CondAcquire(s), t)

\* Mutant of Release: the decrement is lost.
ReleaseNoDecrement(s) == CondRelease(Notify(CondAcquire(s)))

\* Mutant of Release: the decrement comes before `async with self._cond:`.
ReleaseDecrementFirst(s) ==
    CondRelease(Notify(CondAcquire(SetCount(s, s.count - 1))))

\* release.
Release(s) ==
    LET a == CondAcquire(s) IN CondRelease(Notify(SetCount(a, a.count - 1)))

\* Mutant of AquireEmptyFinally: the decrement is lost.
AquireEmptyFinallySkip(s) == s

\* aquireEmpty's finally clause.
AquireEmptyFinally(s) == SetEmptyWaitersCount(s, s.emptyWaitersCount - 1)

\* aquireEmpty, from the predicate check, with the lock held.
AquireEmptyCheck(s, t) ==
    IF AquireEmptyPredicate(s)
    THEN [s |-> AquireEmptyFinally(CondRelease(s)), parked |-> FALSE]
    ELSE [s |-> WaitPark(s, t), parked |-> TRUE]

\* aquireEmpty, from the call.
AquireEmpty(s, t) ==
    AquireEmptyCheck(
        CondAcquire(SetEmptyWaitersCount(s, s.emptyWaitersCount + 1)), t)

\* Mutant of ReleaseEmpty: it decrements emptyWaitersCount as well.
ReleaseEmptyDecrement(s) ==
    CondRelease(Notify([CondAcquire(s) EXCEPT !.emptyWaitersCount = @ - 1]))

\* releaseEmpty.
ReleaseEmpty(s) == CondRelease(Notify(CondAcquire(s)))

\* wait(), resumed by cancellation: unpark the future and take the lock again
\* before CancelledError leaves wait().  passOn: the interpreter's wait()
\* notifies one more waiter on the way (Python 3.13 does, 3.11 does not).
WaitCancelled(s, t, passOn) ==
    IF passOn THEN Notify(WaitResume(s, t)) ELSE WaitResume(s, t)

\* aquire, left by CancelledError: `async with self._cond:` drops the lock.
AquireCancel(s, t, passOn) == CondRelease(WaitCancelled(s, t, passOn))

\* Mutant of AquireEmptyCancel: no finally clause.
AquireEmptyCancelNoFinally(s, t, passOn) ==
    CondRelease(WaitCancelled(s, t, passOn))

\* aquireEmpty, left by CancelledError: the lock is dropped, then the finally
\* clause runs.
AquireEmptyCancel(s, t, passOn) ==
    AquireEmptyFinally(CondRelease(WaitCancelled(s, t, passOn)))

\* The shared state after a run that leaves it as s.
Store(s) ==
    /\ count' = s.count
    /\ emptyWaitersCount' = s.emptyWaitersCount
    /\ locked' = s.locked
    /\ waiters' = s.waiters
    /\ fut' = s.fut
    /\ ready' = s.ready
    /\ writes' = s.writes

\* Tasks are numbered in the order of their first call.
MayStart(t) ==
    /\ pc[t] = "idle"
    /\ \A u \in Tasks : u < t => pc[u] # "idle"

-----------------------------------------------------------------------------
(* Actions *)

\* _ReverseSemaphoreNonEmptyContext.__aenter__
NonEmptyContextAEnter(s, t) == Aquire(s, t)

\* Mutant of NonEmptyContextAExit: release only when the body returned.
NonEmptyContextAExitOnReturn(s, exc) ==
    IF exc THEN [s |-> s, calls |-> 0] ELSE [s |-> Release(s), calls |-> 1]

\* _ReverseSemaphoreNonEmptyContext.__aexit__; exc: the body raised.  Yields
\* the state it leaves and the number of release calls it made.
NonEmptyContextAExit(s, exc) == [s |-> Release(s), calls |-> 1]

\* _ReverseSemaphoreEmptyContext.__aenter__
EmptyContextAEnter(s, t) == AquireEmpty(s, t)

\* _ReverseSemaphoreEmptyContext.__aexit__
EmptyContextAExit(s, exc) == [s |-> ReleaseEmpty(s), calls |-> 1]

\* `async with sem.enter():` entry.
Enter(t) ==
    /\ MayStart(t)
    /\ ~locked
    /\ LET r == NonEmptyContextAEnter(Sem, t) IN
        /\ Store(r.s)
        /\ pc' = [pc EXCEPT ![t] = IF r.parked THEN "aquire" ELSE "body"]
        /\ aquired' = [aquired EXCEPT ![t] = IF r.parked THEN @ ELSE @ + 1]
    /\ kind' = [kind EXCEPT ![t] = "enter"]
    /\ UNCHANGED released

\* `async with sem.enterEmpty():` entry.
EnterEmpty(t) ==
    /\ MayStart(t)
    /\ ~locked
    /\ LET r == EmptyContextAEnter(Sem, t) IN
        /\ Store(r.s)
        /\ pc' = [pc EXCEPT ![t] = IF r.parked THEN "aquireEmpty" ELSE "emptyBody"]
        /\ aquired' = [aquired EXCEPT ![t] = IF r.parked THEN @ ELSE @ + 1]
    /\ kind' = [kind EXCEPT ![t] = "enterEmpty"]
    /\ UNCHANGED released

\* The event loop runs the task at the head of its queue.
Runs(t) == ready # << >> /\ Head(ready) = t /\ ~locked

\* A task parked in aquire was notified and runs: wait() returns, wait_for
\* checks the predicate again.
AquireWake(t) ==
    /\ Runs(t)
    /\ pc[t] = "aquire"
    /\ fut[t] = "result"
    /\ LET r == AquireCheck(WaitResume(Sem, t), t) IN
        /\ Store(r.s)
        /\ pc' = [pc EXCEPT ![t] = IF r.parked THEN "aquire" ELSE "body"]
        /\ aquired' = [aquired EXCEPT ![t] = IF r.parked THEN @ ELSE @ + 1]
    /\ UNCHANGED <<kind, released>>

\* A task parked in aquireEmpty was notified and runs.
AquireEmptyWake(t) ==
    /\ Runs(t)
    /\ pc[t] = "aquireEmpty"
    /\ fut[t] = "result"
    /\ LET r == AquireEmptyCheck(WaitResume(Sem, t), t) IN
        /\ Store(r.s)
        /\ pc' = [pc EXCEPT ![t] = IF r.parked THEN "aquireEmpty" ELSE "emptyBody"]
        /\ aquired' = [aquired EXCEPT ![t] = IF r.parked THEN @ ELSE @ + 1]
    /\ UNCHANGED <<kind, released>>

\* The body of an `async with sem.enter():` ends, by return or by raise.
Exit(t) ==
    /\ pc[t] = "body"
    /\ ~locked
    /\ \E exc \in BOOLEAN :
        LET r == NonEmptyContextAExit(Sem, exc) IN
        /\ Store(r.s)
        /\ released' = [released EXCEPT ![t] = @ + r.calls]
        /\ pc' = [pc EXCEPT ![t] = IF exc THEN "raised" ELSE "returned"]
    /\ UNCHANGED <<kind, aquired>>

\* The body of an `async with sem.enterEmpty():` ends.
ExitEmpty(t) ==
    /\ pc[t] = "emptyBody"
    /\ ~locked
    /\ \E exc \in BOOLEAN :
        LET r == EmptyContextAExit(Sem, exc) IN
        /\ Store(r.s)
        /\ released' = [released EXCEPT ![t] = @ + r.calls]
        /\ pc' = [pc EXCEPT ![t] = IF exc THEN "raised" ELSE "returned"]
    /\ UNCHANGED <<kind, aquired>>

\* Task.cancel() on a task suspended in wait(): a pending future is cancelled
\* and the task scheduled; a task already scheduled by a notify gets
\* CancelledError instead of the result when it runs.
Cancel(t) ==
    /\ pc[t] \in {"aquire", "aquireEmpty"}
    /\ fut[t] \in {"pending", "result"}
    /\ fut' = [fut EXCEPT ![t] = "cancelled"]
    /\ ready' = IF fut[t] = "pending" THEN Append(ready, t) ELSE ready
    /\ UNCHANGED <<count, emptyWaitersCount, locked, waiters, pc, kind,
                   aquired, released, writes>>

\* A cancelled task parked in aquire runs: CancelledError leaves aquire and
\* __aenter__, so the scope is never entered and __aexit__ never runs.
AquireCancelled(t) ==
    /\ Runs(t)
    /\ pc[t] = "aquire"
    /\ fut[t] = "cancelled"
    /\ \E passOn \in BOOLEAN : Store(AquireCancel(Sem, t, passOn))
    /\ pc' = [pc EXCEPT ![t] = "cancelled"]
    /\ UNCHANGED <<kind, aquired, released>>

\* A cancelled task parked in aquireEmpty runs.
AquireEmptyCancelled(t) ==
    /\ Runs(t)
    /\ pc[t] = "aquireEmpty"
    /\ fut[t] = "cancelled"
    /\ \E passOn \in BOOLEAN : Store(AquireEmptyCancel(Sem, t, passOn))
    /\ pc' = [pc EXCEPT ![t] = "cancelled"]
    /\ UNCHANGED <<kind, aquired, released>>

\* A task calls release() without having called aquire().
ReleaseUnmatched(t) ==
    /\ MayStart(t)
    /\ ~locked
    /\ Store(Release(Sem))
    /\ pc' = [pc EXCEPT ![t] = "returned"]
    /\ kind' = [kind EXCEPT ![t] = "release"]
    /\ released' = [released EXCEPT ![t] = @ + 1]
    /\ UNCHANGED aquired

\* A task calls releaseEmpty() without having called aquireEmpty().
ReleaseEmptyUnmatched(t) ==
    /\ MayStart(t)
    /\ ~locked
    /\ Store(ReleaseEmpty(Sem))
    /\ pc' = [pc EXCEPT ![t] = "returned"]
    /\ kind' = [kind EXCEPT ![t] = "releaseEmpty"]
    /\ released' = [released EXCEPT ![t] = @ + 1]
    /\ UNCHANGED aquired

Next ==
    \E t \in Tasks :
        \/ Enter(t)
        \/ EnterEmpty(t)
        \/ AquireWake(t)
        \/ AquireEmptyWake(t)
        \/ Exit(t)
        \/ ExitEmpty(t)
        \/ Cancel(t)
        \/ AquireCancelled(t)
        \/ AquireEmptyCancelled(t)
        \/ ReleaseUnmatched(t)
        \/ ReleaseEmptyUnmatched(t)

Spec == Init /\ [][Next]_vars

\* Callers that only use the scoped guards and are never cancelled.
NextScoped ==
    \E t \in Tasks :
        \/ Enter(t)
        \/ EnterEmpty(t)
        \/ AquireWake(t)
        \/ AquireEmptyWake(t)
        \/ Exit(t)
        \/ ExitEmpty(t)

\* The event loop runs every scheduled task, and every body ends.
ScopedFairness ==
    \A t \in Tasks :
        /\ WF_vars(AquireWake(t))
        /\ WF_vars(AquireEmptyWake(t))
        /\ WF_vars(Exit(t))
        /\ WF_vars(ExitEmpty(t))

ScopedSpec == Init /\ [][NextScoped]_vars

ScopedFairSpec == ScopedSpec /\ ScopedFairness

-----------------------------------------------------------------------------
(* Shape of the state *)

TypeOK ==
    /\ count \in Int
    /\ emptyWaitersCount \in Int
    /\ locked = FALSE
    /\ pc \in [Tasks -> {"idle", "aquire", "aquireEmpty", "body", "emptyBody",
                         "returned", "raised", "cancelled"}]
    /\ kind \in [Tasks -> {"none", "enter", "enterEmpty", "release", "releaseEmpty"}]
    /\ fut \in [Tasks -> {"none", "pending", "result", "cancelled"}]
    /\ \A t \in Tasks : (fut[t] # "none") <=> (pc[t] \in {"aquire", "aquireEmpty"})
    /\ \A t \in Tasks :
        Cardinality({i \in 1..Len(waiters) : waiters[i] = t})
            = IF fut[t] = "none" THEN 0 ELSE 1
    /\ \A t \in Tasks :
        Cardinality({i \in 1..Len(ready) : ready[i] = t})
            = IF fut[t] \in {"result", "cancelled"} THEN 1 ELSE 0

\* No release() was called without a matching aquire().
Disciplined == \A t \in Tasks : kind[t] # "release"

\* Every task has run to its end.
AllFinished == \A t \in Tasks : pc[t] \in {"returned", "raised", "cancelled"}

\* The tasks inside the body of an enterEmpty() scope.
EmptyHolders == {t \in Tasks : pc[t] = "emptyBody"}

\* The tasks inside the body of an enter() scope.
Holders == {t \in Tasks : pc[t] = "body"}

-----------------------------------------------------------------------------
(* Claims *)

\* C1: at most one task is between the return of its aquireEmpty and the
\* start of its releaseEmpty.
C1_DrainExclusivity == Cardinality(EmptyHolders) <= 1

\* C2: no aquire call completes (increments count and returns) while
\* emptyWaitersCount > 0, nor while any aquireEmpty call is registered and
\* has not left its wait.
C2_NoAquireWhileEmptyWaiters ==
    [][\A t \in Tasks :
        (count' > count \/ (pc[t] # "body" /\ pc'[t] = "body")) =>
            /\ emptyWaitersCount = 0
            /\ emptyWaitersCount' = 0
            /\ \A u \in Tasks : pc[u] # "aquireEmpty" /\ pc'[u] # "aquireEmpty"]_vars

\* C2 witness: a task parked in aquire has been woken while an aquireEmpty
\* call is registered, and is about to check its predicate again.
C2_Witness ==
    \E t, u \in Tasks :
        /\ pc[t] = "aquire" /\ fut[t] = "result" /\ Head(ready) = t
        /\ pc[u] = "aquireEmpty"
        /\ emptyWaitersCount > 0

\* C3: at the step where an aquireEmpty call returns, count is 0.
C3_EmptyGrantedAtZero ==
    [][\A t \in Tasks :
        (pc[t] # "emptyBody" /\ pc'[t] = "emptyBody") =>
            count = 0 /\ count' = 0]_vars

\* C3 witness: a task parked in aquireEmpty has been woken by a release that
\* left count > 0, and is about to check its predicate again.
C3_Witness ==
    \E t \in Tasks :
        /\ pc[t] = "aquireEmpty" /\ fut[t] = "result" /\ Head(ready) = t
        /\ count > 0

\* C4: while a task is between the return of its aquireEmpty and its
\* releaseEmpty, count is 0.
C4_CountZeroInEmptyBody == EmptyHolders # {} => count = 0

\* C5: a task parked in aquireEmpty eventually returns from it, once every
\* regular holder has released.
C5_DrainLiveness ==
    \A t \in Tasks : (pc[t] = "aquireEmpty") ~> (pc[t] = "emptyBody")

\* C6: a task parked in aquire eventually returns from it, when every holder
\* releases and finitely many aquireEmpty calls arrive.
C6_RegularLiveness ==
    \A t \in Tasks : (pc[t] = "aquire") ~> (pc[t] = "body")

\* C7: when every release follows a completed aquire of the same task, count
\* is the number of tasks that completed aquire and have not called release
\* (so it is >= 0), emptyWaitersCount is untouched by those calls, and when
\* all tasks have finished the counters are (0, 0).
C7_CounterAccounting ==
    Disciplined =>
        /\ count = Cardinality({t \in Tasks :
                        kind[t] = "enter" /\ aquired[t] = 1 /\ released[t] = 0})
        /\ count >= 0
        /\ (\A t \in Tasks : kind[t] \notin {"enterEmpty"})
                => emptyWaitersCount = 0
        /\ AllFinished => (count = 0 /\ emptyWaitersCount = 0)

\* C7 witness: every task has finished, some of them aquire/release pairs.
C7_Witness ==
    /\ Disciplined
    /\ AllFinished
    /\ \E t, u \in Tasks :
        /\ kind[t] = "enter" /\ released[t] = 1
        /\ kind[u] = "enterEmpty" /\ released[u] = 1

\* C8: count is never negative, even when release is called without a
\* matching aquire.
C8_CountNeverNegative == count >= 0

\* C9: a scope of enter() or enterEmpty() calls its aquire operation once on
\* entry and its release operation exactly once when the body ends, by return
\* or by raise; when the entry is cancelled the release operation is not
\* called; count after the scopes equals count before them.
C9_ScopedGuardsPair ==
    /\ \A t \in Tasks :
        kind[t] \in {"enter", "enterEmpty"} =>
            /\ pc[t] \in {"aquire", "aquireEmpty", "cancelled"}
                => (aquired[t] = 0 /\ released[t] = 0)
            /\ pc[t] \in {"body", "emptyBody"}
                => (aquired[t] = 1 /\ released[t] = 0)
            /\ pc[t] \in {"returned", "raised"}
                => (aquired[t] = 1 /\ released[t] = 1)
    /\ (Disciplined /\ Holders = {}) => count = 0

\* C9 witness: one scope was left by a raise, one by a return, and one entry
\* was cancelled.
C9_Witness ==
    \E t, u, v \in Tasks :
        /\ kind[t] = "enter" /\ pc[t] = "raised"
        /\ kind[u] = "enterEmpty" /\ pc[u] = "returned"
        /\ pc[v] = "cancelled"
        /\ Disciplined /\ Holders = {}

\* C10: when a task parked in aquireEmpty is cancelled, emptyWaitersCount is
\* decremented exactly once for it, count is unchanged, emptyWaitersCount is
\* never negative, and the cancelled call no longer keeps the aquire
\* predicate false.
C10_CancelledEmptyWaiter ==
    [][/\ emptyWaitersCount >= 0
       /\ emptyWaitersCount' >= 0
       /\ \A t \in Tasks :
            (pc[t] = "aquireEmpty" /\ pc'[t] = "cancelled") =>
                /\ emptyWaitersCount' = emptyWaitersCount - 1
                /\ count' = count
                /\ (\A u \in Tasks \ {t} : pc[u] # "aquireEmpty")
                        => emptyWaitersCount' = 0]_vars

\* C10 witness: an aquireEmpty call was cancelled while parked, and a later
\* aquire call went through.
C10_Witness ==
    \E t, u \in Tasks :
        /\ kind[t] = "enterEmpty" /\ pc[t] = "cancelled"
        /\ u > t /\ pc[u] = "body"
        /\ emptyWaitersCount = 0

\* The tasks whose parked future gets its result in this step.
Woken == {w \in Tasks : fut[w] = "pending" /\ fut'[w] = "result"}

\* The parked tasks that no notify has reached yet, and the first of them in
\* the condition's queue.
Unwoken == {w \in Tasks : fut[w] = "pending"}

PositionOf(w) == CHOOSE i \in 1..Len(waiters) : waiters[i] = w

FirstUnwoken == {w \in Unwoken : \A v \in Unwoken : PositionOf(w) <= PositionOf(v)}

\* This step is a call of release or releaseEmpty.
ReleaseStep == \E t \in Tasks : released'[t] > released[t]

\* This step is a woken task checking its predicate again.
RecheckStep ==
    \E t \in Tasks : fut[t] = "result" /\ fut'[t] \in {"none", "pending"}

C12_ParkedOnlyWhilePredicateFalse ==
    \A t \in Tasks :
        /\ (pc[t] = "aquire" /\ fut[t] = "pending") => emptyWaitersCount > 0
        /\ (pc[t] = "aquireEmpty" /\ fut[t] = "pending") => count > 0

\* This step parks task t: a new future of t is appended to the queue.
Parks(t) == fut[t] # "pending" /\ fut'[t] = "pending"

\* C12, amended: a task parks, or parks again after a wake, only when its
\* predicate is false at that check (aquire: emptyWaitersCount > 0;
\* aquireEmpty: count # 0, which is count > 0 when no release lacks its
\* aquire); once parked it stays parked until a notify or a cancellation
\* reaches it, also when its predicate has become true.
C12_ParksOnlyWhenPredicateFalse ==
    [][\A t \in Tasks :
        /\ (Parks(t) /\ pc'[t] = "aquire") =>
                (emptyWaitersCount > 0 /\ emptyWaitersCount' > 0)
        /\ (Parks(t) /\ pc'[t] = "aquireEmpty") =>
                /\ count # 0 /\ count' = count
                /\ Disciplined => count > 0
        /\ fut[t] = "pending" =>
                /\ fut'[t] \in {"pending", "result", "cancelled"}
                /\ pc'[t] = pc[t]]_vars

\* C12 witness: a task is parked in aquireEmpty, not woken, while count is 0
\* and another task runs the body of its enterEmpty() scope.
C12_Witness ==
    \E t, u \in Tasks :
        /\ pc[t] = "aquireEmpty" /\ fut[t] = "pending" /\ count = 0
        /\ pc[u] = "emptyBody" /\ aquired[u] = 1

\* This step is task t's call of aquire / of aquireEmpty.
CallsAquire(t) == kind[t] = "none" /\ kind'[t] = "enter"

CallsAquireEmpty(t) == kind[t] = "none" /\ kind'[t] = "enterEmpty"

EmptyWaiters == {t \in Tasks : pc[t] = "aquireEmpty"}

\* C14: emptyWaitersCount is the number of aquireEmpty calls that have
\* registered and whose wait has not completed (so it is >= 0); a call's
\* decrement happens once, in the step in which its wait completes, before
\* its body runs, so during a body the count is of the other waiters only.
C14_EmptyWaiterAccounting ==
    [][/\ emptyWaitersCount = Cardinality(EmptyWaiters)
       /\ emptyWaitersCount' = Cardinality(EmptyWaiters')
       /\ emptyWaitersCount' >= 0
       /\ \A t \in Tasks :
            /\ (pc[t] = "aquireEmpty" /\ pc'[t] = "emptyBody")
                    => emptyWaitersCount' = emptyWaitersCount - 1
            /\ (pc[t] = "emptyBody" /\ pc'[t] # "emptyBody")
                    => emptyWaitersCount' = emptyWaitersCount]_vars

\* C14 witness: one task runs the body of its enterEmpty() scope while an
\* aquireEmpty call made earlier is still registered, and the count is 1.
C14_Witness ==
    \E t, u \in Tasks :
        /\ pc[t] = "emptyBody"
        /\ pc[u] = "aquireEmpty"
        /\ u < t
        /\ emptyWaitersCount = 1

\* This step is a call of releaseEmpty by task t.
CallsReleaseEmpty(t) ==
    /\ released'[t] > released[t]
    /\ kind'[t] \in {"enterEmpty", "releaseEmpty"}

\* C15: every call of releaseEmpty, matched or not, leaves count and
\* emptyWaitersCount unchanged and wakes at most one parked waiter; a woken
\* waiter checks its predicate again and proceeds only if it is true.
C15_ReleaseEmptyFrame ==
    [][\A t \in Tasks :
        /\ CallsReleaseEmpty(t) =>
                /\ count' = count
                /\ emptyWaitersCount' = emptyWaitersCount
                /\ Cardinality(Woken) <= 1
                /\ \A u \in Tasks \ (Woken \cup {t}) :
                        fut'[u] = fut[u] /\ pc'[u] = pc[u]
        /\ (fut[t] = "result" /\ fut'[t] \in {"none", "pending"}) =>
                IF pc[t] = "aquire"
                THEN IF emptyWaitersCount = 0
                     THEN pc'[t] = "body" /\ fut'[t] = "none"
                     ELSE pc'[t] = "aquire" /\ fut'[t] = "pending"
                ELSE IF count = 0
                     THEN pc'[t] = "emptyBody" /\ fut'[t] = "none"
                     ELSE pc'[t] = "aquireEmpty" /\ fut'[t] = "pending"]_vars

\* C15 witness: the only release call so far is a releaseEmpty without its
\* aquireEmpty; it has woken a waiter whose predicate is false.
C15_Witness ==
    \E t, u \in Tasks :
        /\ kind[t] = "releaseEmpty"
        /\ \A v \in Tasks \ {t} : released[v] = 0 /\ pc[v] # "cancelled"
        /\ pc[u] = "aquireEmpty" /\ fut[u] = "result"
        /\ count > 0

\* C16: every assignment to count or emptyWaitersCount is made by a task
\* that holds the condition's lock.
C16_AllWritesLocked == \A w \in writes : w.locked

\* C16, amended: count is assigned only with the condition's lock held (the
\* increment in aquire, the decrement in release); emptyWaitersCount is
\* assigned without it, before aquireEmpty enters `async with self._cond:`
\* and in the finally clause after it has left it.
C16_CountWritesLocked ==
    \A w \in writes : w.locked <=> (w.counter = "count")

\* C16 witness: both counters have been incremented and decremented.
C16_Witness ==
    /\ Cardinality(writes) = 2
    /\ \E t, u \in Tasks :
        /\ kind[t] = "enter" /\ pc[t] = "returned"
        /\ kind[u] = "enterEmpty" /\ pc[u] = "returned"

\* This step is task t's aquireEmpty returning from a wait.
ReturnsFromEmptyWait(t) == pc[t] = "aquireEmpty" /\ pc'[t] = "emptyBody"

\* C17: if X parked in aquireEmpty before Y did, X's aquireEmpty returns
\* before Y's.  (Tasks are numbered in the order of their calls, and a call
\* that parks does so in the step of the call: X parked first iff X < Y.)
C17_EmptyWaitersInArrivalOrder ==
    [][\A y \in Tasks :
        ReturnsFromEmptyWait(y) =>
            \A x \in Tasks :
                x < y => ~(pc[x] = "aquireEmpty" /\ fut[x] # "cancelled")]_vars

\* C17, amended: waiters return in the order of the condition's queue, which
\* is the order of their latest parking: when an aquireEmpty call returns
\* from a wait, its future is ahead in the queue of the future of every other
\* parked call that is not cancelled.  A waiter woken while count > 0 parks
\* again at the tail, behind the calls that parked after its arrival.
C17_EmptyWaitersInQueueOrder ==
    [][\A y \in Tasks :
        ReturnsFromEmptyWait(y) =>
            \A x \in Tasks \ {y} :
                (fut[x] \in {"pending", "result"})
                    => PositionOf(y) < PositionOf(x)]_vars

\* C17 witness: X arrived before Y, was woken while count > 0 and parked
\* again behind Y; Y is now woken at count 0 and is about to return first.
C17_Witness ==
    \E x, y \in Tasks :
        /\ x < y
        /\ pc[x] = "aquireEmpty" /\ fut[x] = "pending"
        /\ pc[y] = "aquireEmpty" /\ fut[y] = "result"
        /\ PositionOf(y) < PositionOf(x)
        /\ count = 0
        /\ Head(ready) = y

=============================================================================
